---- MODULE Spec2Model ----
(***************************************************************************)
(* simplecpp::Pointer<T, alloc, dealloc> (include/SimpleCPP/pointer.h): a  *)
(* reference-counted handle over a heap buffer, instantiated as in         *)
(* tests/pointer.cpp with the counting allocator pair alloc / dealloc.     *)
(*                                                                         *)
(* Addresses are small integers, 0 is nullptr.  The heap hands out any     *)
(* address that is not in use (malloc may reuse a freed address) or fails. *)
(* Every operation of the class is a function from a program state record  *)
(* to a program state record that also carries how the operation ended     *)
(* (res), the heap calls it made in order (ev) and the undefined heap      *)
(* calls among them (errs).  An action takes the outcome of one operation  *)
(* on the current state (Heap) as its step; the properties speak of the    *)
(* reachable states and of every operation that can start in them.         *)
(***************************************************************************)
EXTENDS Integers, Sequences, FiniteSets, TLC

\* ---- bounds of the model ------------------------------------------------
NumHandles == 2
HeapSize == 2
MaxLen == 1
MaxAllocCalls == 2
\* bits of the (narrow) size_t
SizeBits == 4
NumThreads == 2

\* ---- program constants --------------------------------------------------
\* sizeof(type), type = float
SizeofT == 4
\* size_t arithmetic is modulo SizeWrap (a narrow size_t)
SizeWrap == 2 ^ SizeBits
\* the least length whose size in bytes does not fit a size_t
WrapLen == SizeWrap \div SizeofT

Vals == {0, 1}
Tmp == 0
Handles == 1..NumHandles
Slots == 0..NumHandles
Cells == 1..HeapSize
Bufs == 1..HeapSize
\* the lengths constructed with: the small ones and one too large
Lens == (0..MaxLen) \cup {WrapLen}
\* a counter is not driven past MaxCount (it takes 2^w copies to wrap a size_t)
MaxCount == NumHandles

\* the program's state, and two history variables that say of the operations
\* taken so far how they used the heap; threads is each thread's position in
\* the operation it is executing and stale says that some thread has stored a
\* counter value computed from a value that was overwritten in between (both
\* are used by the multi-threaded program only)
VARIABLES handles, cells, bufs, alloc_count, dealloc_count, freed_together, released_once,
          threads, stale

vars == <<handles, cells, bufs, alloc_count, dealloc_count, freed_together, released_once,
          threads, stale>>

\* ---- the program state as a record --------------------------------------
NoHandle == [live |-> FALSE, refs |-> 0, data |-> 0]
FreeCell == [st |-> "free", val |-> 0]
FreeBuf == [st |-> "free", size |-> 0, data |-> <<>>]

Heap ==
  [handles |-> handles, cells |-> cells, bufs |-> bufs,
   alloc_count |-> alloc_count, dealloc_count |-> dealloc_count,
   ev |-> <<>>, errs |-> {}, res |-> "ok"]

Log(S, e) == [S EXCEPT !.ev = Append(@, e)]
Flag(S, e) == [S EXCEPT !.errs = @ \cup {e}]

\* ---- the heap: malloc / free ---------------------------------------------
\* malloc(sizeof(size_t)) returning c (0: NULL); the cell holds garbage u
MallocCell(S, c, u) ==
  IF c = 0 THEN Log(S, <<"malloc", 0>>)
  ELSE Log([S EXCEPT !.cells[c] = [st |-> "live", val |-> u]], <<"malloc", c>>)

\* free(_refs)
free(S, c) ==
  IF c = 0 THEN S
  ELSE IF S.cells[c].st = "live"
       THEN Log([S EXCEPT !.cells[c] = FreeCell], <<"free", c>>)
       ELSE Flag(Log(S, <<"free", c>>), "double_free_cell")

\* the injected allocator of the tests: counts the call, returns malloc(size);
\* an allocator that follows the documented contract raises instead (e.thr)
alloc(S, size, e) ==
  LET S1 == [S EXCEPT !.alloc_count = @ + 1]
  IN IF e.thr THEN Log(S1, <<"alloc_throw", size>>)
     ELSE IF e.b = 0 THEN Log(S1, <<"alloc", size, 0>>)
     ELSE Log([S1 EXCEPT !.bufs[e.b] =
                 [st |-> "live", size |-> size, data |-> e.init]],
              <<"alloc", size, e.b>>)

\* the injected deallocator of the tests: counts the call, free(ptr)
dealloc(S, b) ==
  LET S1 == [S EXCEPT !.dealloc_count = @ + 1]
  IN IF b = 0 THEN Log(S1, <<"dealloc", 0>>)
     ELSE IF S1.bufs[b].st = "live"
          THEN Log([S1 EXCEPT !.bufs[b] = FreeBuf], <<"dealloc", b>>)
          ELSE Flag(Log(S1, <<"dealloc", b>>), "double_free_buf")

\* ++(*_refs)
IncCell(S, c) ==
  IF c = 0 \/ S.cells[c].st # "live" THEN Flag(Log(S, <<"inc", c, 0>>), "bad_counter_access")
  ELSE Log([S EXCEPT !.cells[c].val = (@ + 1) % SizeWrap],
           <<"inc", c, (S.cells[c].val + 1) % SizeWrap>>)

\* --(*_refs)
DecCell(S, c) ==
  IF c = 0 \/ S.cells[c].st # "live" THEN Flag(Log(S, <<"dec", c, 0>>), "bad_counter_access")
  ELSE Log([S EXCEPT !.cells[c].val = (@ - 1) % SizeWrap],
           <<"dec", c, (S.cells[c].val - 1) % SizeWrap>>)

\* ---- observers ------------------------------------------------------------
is_valid(S, h) == S.handles[h].data # 0

get_ref_count(S, h) ==
  IF is_valid(S, h)
  THEN (IF S.handles[h].refs = 0 THEN -1 ELSE S.cells[S.handles[h].refs].val)
  ELSE 0

\* get()
get(S, h) == S.handles[h].data

\* an equality that compares what the buffers hold, not which buffers they are
EqualByContent(S, a, b) ==
  IF S.handles[a].data = 0 \/ S.handles[b].data = 0
  THEN S.handles[a].data = S.handles[b].data
  ELSE S.bufs[S.handles[a].data].data = S.bufs[S.handles[b].data].data

\* operator==(const Pointer&, const Pointer&)
Equal(S, a, b) ==
  S.handles[a].refs = S.handles[b].refs /\ S.handles[a].data = S.handles[b].data

\* operator==(const Pointer&, const T*)
EqualRaw(S, a, p) == S.handles[a].data = p

\* ---- variants with one slip each, to show what the properties rest on --------
\* dec_ref that frees without looking at the counter
dec_refAlwaysFrees(S, h) ==
  IF is_valid(S, h)
  THEN LET c == S.handles[h].refs
           b == S.handles[h].data
           S1 == DecCell(S, c)
           S2 == free(dealloc(S1, b), c)
       IN [S2 EXCEPT !.handles[h].refs = 0, !.handles[h].data = 0]
  ELSE S

\* dec_ref that never frees
dec_refNeverFrees(S, h) ==
  IF is_valid(S, h)
  THEN [DecCell(S, S.handles[h].refs) EXCEPT !.handles[h].refs = 0, !.handles[h].data = 0]
  ELSE S

\* dec_ref without the validity test
dec_refNoValidTest(S, h) ==
  LET c == S.handles[h].refs
      b == S.handles[h].data
      S1 == DecCell(S, c)
      zero == c # 0 /\ S1.cells[c].val = 0
      S2 == IF zero THEN free(dealloc(S1, b), c) ELSE S1
  IN [S2 EXCEPT !.handles[h].refs = 0, !.handles[h].data = 0]

\* ---- the private release step ---------------------------------------------
dec_ref(S, h) ==
  IF is_valid(S, h)
  THEN LET c == S.handles[h].refs
           b == S.handles[h].data
           S1 == DecCell(S, c)
           zero == c # 0 /\ S1.cells[c].val = 0
           S2 == IF zero THEN free(dealloc(S1, b), c) ELSE S1
       IN [S2 EXCEPT !.handles[h].refs = 0, !.handles[h].data = 0]
  ELSE S

\* ---- constructors ----------------------------------------------------------
\* the member initialisers and the null check shared by both allocating
\* constructors; e is what the heap answers: e.c the counter cell (0: NULL),
\* e.u its garbage, e.b the buffer (0: NULL), e.thr alloc raises, e.init the
\* buffer's garbage
InitMembers(S, h, len, e) ==
  LET size == (len * SizeofT) % SizeWrap
      S1 == MallocCell(S, e.c, e.u)
      S2 == alloc(S1, size, e)
  IN IF e.thr THEN [S2 EXCEPT !.res = "alloc_exception"]
     ELSE IF e.c = 0 THEN [S2 EXCEPT !.res = "bad_alloc"]
     ELSE [S2 EXCEPT !.cells[e.c].val = 1,
                     !.handles[h] = [live |-> TRUE, refs |-> e.c, data |-> e.b]]

LenCtor(S, h, len, e) == InitMembers(S, h, len, e)

\* memcpy(_data, data, len * sizeof(T))
Memcpy(S, b, arr, bytes) ==
  IF bytes = 0 THEN S
  ELSE IF b = 0 THEN [S EXCEPT !.res = "segfault"]
  ELSE [S EXCEPT !.bufs[b].data =
          [i \in 1..Len(@) |-> IF i <= Len(arr) /\ i * SizeofT <= bytes THEN arr[i] ELSE @[i]]]

DataCtor(S, h, src, len, e) ==
  LET S1 == InitMembers(S, h, len, e)
  IN IF S1.res # "ok" THEN S1
     ELSE IF src.null
          THEN [dec_ref(S1, h) EXCEPT !.handles[h] = NoHandle, !.res = "invalid_argument"]
          ELSE LET S2 == Memcpy(S1, S1.handles[h].data, src.arr, (len * SizeofT) % SizeWrap)
               IN IF S2.res = "ok" THEN S2 ELSE [S2 EXCEPT !.handles[h] = NoHandle]

\* a move constructor that leaves the source as it was
MoveCtorKeepsSource(S, h, o) ==
  [S EXCEPT !.handles[h] =
     [live |-> TRUE, refs |-> S.handles[o].refs, data |-> S.handles[o].data]]

\* a move constructor that counts the destination as one more owner
MoveCtorCounts(S, h, o) ==
  LET S1 == [S EXCEPT !.handles[h] =
               [live |-> TRUE, refs |-> S.handles[o].refs, data |-> S.handles[o].data],
                      !.handles[o].refs = 0,
                      !.handles[o].data = 0]
  IN IF S1.handles[h].refs # 0 THEN IncCell(S1, S1.handles[h].refs) ELSE S1

DefaultCtor(S, h) == [S EXCEPT !.handles[h] = [live |-> TRUE, refs |-> 0, data |-> 0]]

CopyCtor(S, h, o) ==
  LET S1 == [S EXCEPT !.handles[h] =
               [live |-> TRUE, refs |-> S.handles[o].refs, data |-> S.handles[o].data]]
  IN IF S1.handles[h].refs # 0 THEN IncCell(S1, S1.handles[h].refs) ELSE S1

MoveCtor(S, h, o) ==
  [S EXCEPT !.handles[h] =
              [live |-> TRUE, refs |-> S.handles[o].refs, data |-> S.handles[o].data],
            !.handles[o].refs = 0,
            !.handles[o].data = 0]

\* ---- destructor -------------------------------------------------------------
Dtor(S, h) == [dec_ref(S, h) EXCEPT !.handles[h] = NoHandle]

\* a copy assignment that attaches before it releases
CopyAssignAttachesFirst(S, h, o) ==
  IF h = o THEN S
  ELSE LET c == S.handles[o].refs
           S1 == IF c # 0 THEN IncCell(S, c) ELSE S
           S2 == dec_ref(S1, h)
       IN [S2 EXCEPT !.handles[h].refs = c,
                     !.handles[h].data = IF c # 0 THEN S.handles[o].data ELSE 0]

\* a move assignment without the self-assignment test
MoveAssignNoSelfTest(S, h, o) ==
  LET S1 == dec_ref(S, h)
  IN [S1 EXCEPT !.handles[h].refs = S1.handles[o].refs,
                !.handles[h].data = S1.handles[o].data,
                !.handles[o].refs = 0,
                !.handles[o].data = 0]

\* a move assignment that leaves the source attached
MoveAssignKeepsSource(S, h, o) ==
  IF h = o THEN S
  ELSE LET S1 == dec_ref(S, h)
       IN [S1 EXCEPT !.handles[h].refs = S1.handles[o].refs,
                     !.handles[h].data = S1.handles[o].data]

\* ---- assignment ---------------------------------------------------------------
CopyAssign(S, h, o) ==
  IF h = o THEN S
  ELSE LET S1 == dec_ref(S, h)
           S2 == [S1 EXCEPT !.handles[h].refs = S1.handles[o].refs]
       IN IF S2.handles[h].refs # 0
          THEN [IncCell(S2, S2.handles[h].refs) EXCEPT !.handles[h].data = S2.handles[o].data]
          ELSE S2

MoveAssign(S, h, o) ==
  IF h = o THEN S
  ELSE LET S1 == dec_ref(S, h)
       IN [S1 EXCEPT !.handles[h].refs = S1.handles[o].refs,
                     !.handles[h].data = S1.handles[o].data,
                     !.handles[o].refs = 0,
                     !.handles[o].data = 0]

\* ptr = Pointer<type, alloc, dealloc>{data, len}: the temporary is built, moved
\* from, and destroyed; when its constructor raises, the assignment never runs
TempAssign(S, h, src, len, e) ==
  LET S1 == DataCtor(S, Tmp, src, len, e)
  IN IF S1.res # "ok" THEN S1 ELSE Dtor(MoveAssign(S1, h, Tmp), Tmp)

\* ptr[idx] = v
Store(S, h, idx, v) == [S EXCEPT !.bufs[S.handles[h].data].data[idx + 1] = v]

\* ---- what the heap may answer -------------------------------------------------
\* malloc answers NULL or an address not in use; the class never looks at which
\* one, so the lowest unused address stands for all of them
Lowest(A) == IF A = {} THEN {} ELSE {CHOOSE a \in A : \A x \in A : a <= x}
FreeCells(S) == Lowest({c \in Cells : S.cells[c].st = "free"})
FreeBufs(S) == Lowest({b \in Bufs : S.bufs[b].st = "free"})
Arrays(len) == [1..len -> Vals]
\* the caller's arrays of len elements; only the elements memcpy reaches are
\* ever read, the others are left 0
SourceArrays(len) ==
  {[i \in 1..len |-> IF i <= ((len * SizeofT) % SizeWrap) \div SizeofT THEN a[i] ELSE 0] :
     a \in Arrays(((len * SizeofT) % SizeWrap) \div SizeofT)}
Sources(len) ==
  {[null |-> TRUE, arr |-> <<>>]} \cup {[null |-> FALSE, arr |-> a] : a \in SourceArrays(len)}

\* the elements a buffer of len * sizeof(T) bytes (in size_t arithmetic) holds
Elems(len) == ((len * SizeofT) % SizeWrap) \div SizeofT

Answers(S, len) ==
  {[c |-> c, u |-> u, b |-> b, thr |-> thr, init |-> init] :
     c \in FreeCells(S) \cup {0}, u \in {0, SizeWrap - 1},
     b \in FreeBufs(S) \cup {0}, thr \in BOOLEAN, init \in Arrays(Elems(len))}

\* answers that differ only in what is never looked at are one answer
Canonical(e, len) ==
  /\ (e.c = 0 \/ ~e.thr) => e.u = 0
  /\ (e.b = 0 \/ e.thr) => e.init = [i \in 1..Elems(len) |-> 0]
  /\ e.thr => e.b = 0

Envs(len) == {e \in Answers(Heap, len) : Canonical(e, len)}
\* memcpy overwrites all of a buffer that stays: what it held before is never seen
CopyEnvs(len) == {e \in Envs(len) : e.init = [i \in 1..Elems(len) |-> 0]}

\* ---- the state machine -----------------------------------------------------------
DeadSlots == {h \in Handles : ~handles[h].live}
LiveSlots == {h \in Handles : handles[h].live}
CanAlloc == alloc_count < MaxAllocCalls
\* the handles whose buffer can be written through operator[]
Writable == {h \in LiveSlots : handles[h].data # 0 /\ bufs[handles[h].data].st = "live"}
Indices(h) == 0..(Len(bufs[handles[h].data].data) - 1)

Events(ev, tag) == {i \in 1..Len(ev) : ev[i][1] = tag}

\* in the heap calls of one operation, a buffer goes to the injected
\* deallocator only right after the decrement that takes a counter to zero,
\* that counter's cell is freed right after it, and no cell is freed without a
\* buffer deallocated just before
FreedTogether(S) ==
  LET ev == S.ev
  IN /\ \A i \in Events(ev, "dealloc") :
          /\ ev[i][2] # 0
          /\ i > 1 /\ ev[i - 1][1] = "dec" /\ ev[i - 1][3] = 0
          /\ i < Len(ev) /\ ev[i + 1] = <<"free", ev[i - 1][2]>>
     /\ \A i \in Events(ev, "free") : i > 1 /\ ev[i - 1][1] = "dealloc"
     /\ \A i \in Events(ev, "dec") :
          ev[i][3] = 0 => i < Len(ev) /\ ev[i + 1][1] = "dealloc"

\* an operation that ended in S made no undefined heap call (double free,
\* counter access through a null or freed cell) and released at most once
ReleasedOnce(S) ==
  /\ S.errs = {}
  /\ Cardinality(Events(S.ev, "dec")) <= 1
  /\ Cardinality(Events(S.ev, "dealloc")) <= 1
  /\ Cardinality(Events(S.ev, "free")) <= 1

\* the outcome S of an operation is a step of the program unless it ends the
\* program (memcpy into a null buffer) or drives a counter past
\* MaxCount
Allowed(S) ==
  /\ S.res # "segfault"
  /\ \A i \in 1..Len(S.ev) : S.ev[i][1] = "inc" => S.ev[i][3] \in 1..MaxCount

Step(S) ==
  \E T \in {S} :
    /\ Allowed(T)
    /\ handles' = T.handles
    /\ cells' = T.cells
    /\ bufs' = T.bufs
    /\ alloc_count' = T.alloc_count
    /\ dealloc_count' = T.dealloc_count
    /\ freed_together' = (freed_together /\ FreedTogether(T))
    /\ released_once' = (released_once /\ ReleasedOnce(T))
    /\ UNCHANGED <<threads, stale>>

Init ==
  /\ handles = [h \in Slots |-> NoHandle]
  /\ cells = [c \in Cells |-> FreeCell]
  /\ bufs = [b \in Bufs |-> FreeBuf]
  /\ alloc_count = 0
  /\ dealloc_count = 0
  /\ freed_together = TRUE
  /\ released_once = TRUE
  /\ threads = <<>>
  /\ stale = FALSE

DoDefaultCtor == \E h \in DeadSlots : Step(DefaultCtor(Heap, h))

DoLenCtor ==
  /\ CanAlloc
  /\ \E h \in DeadSlots, len \in Lens : \E e \in Envs(len) : Step(LenCtor(Heap, h, len, e))

DoDataCtor ==
  /\ CanAlloc
  /\ \E h \in DeadSlots, len \in Lens : \E src \in Sources(len), e \in CopyEnvs(len) :
       Step(DataCtor(Heap, h, src, len, e))

DoCopyCtor == \E h \in DeadSlots, o \in LiveSlots : Step(CopyCtor(Heap, h, o))

DoMoveCtor == \E h \in DeadSlots, o \in LiveSlots : Step(MoveCtor(Heap, h, o))

DoDtor == \E h \in LiveSlots : Step(Dtor(Heap, h))

DoCopyAssign == \E h \in LiveSlots, o \in LiveSlots : Step(CopyAssign(Heap, h, o))

DoMoveAssign == \E h \in LiveSlots, o \in LiveSlots : Step(MoveAssign(Heap, h, o))

DoTempAssign ==
  /\ CanAlloc
  /\ \E h \in LiveSlots, len \in Lens : \E src \in Sources(len), e \in CopyEnvs(len) :
       Step(TempAssign(Heap, h, src, len, e))

DoStore == \E h \in Writable : \E idx \in Indices(h), v \in Vals : Step(Store(Heap, h, idx, v))

Next ==
  \/ DoDefaultCtor
  \/ DoLenCtor
  \/ DoDataCtor
  \/ DoCopyCtor
  \/ DoMoveCtor
  \/ DoDtor
  \/ DoCopyAssign
  \/ DoMoveAssign
  \/ DoTempAssign
  \/ DoStore

Spec == Init /\ [][Next]_vars

\* ---- vocabulary of the properties ---------------------------------------------
Valid(h) == handles[h].live /\ is_valid(Heap, h)
FullyInvalid(h) == handles[h].live /\ handles[h].refs = 0 /\ handles[h].data = 0
FullyInvalidIn(S, h) == S.handles[h].live /\ S.handles[h].refs = 0 /\ S.handles[h].data = 0
Count(h) == get_ref_count(Heap, h)
Sharers(c) == {h \in Slots : handles[h].live /\ handles[h].refs = c}
Tags(ev) == [i \in 1..Len(ev) |-> ev[i][1]]
CountsKept(S) == S.alloc_count = alloc_count /\ S.dealloc_count = dealloc_count
\* every construction from existing data that can start here ends as P says
AllDataCtors(P(_)) ==
  CanAlloc =>
    \A h \in DeadSlots, len \in Lens : \A src \in Sources(len), e \in CopyEnvs(len) :
      P(DataCtor(Heap, h, src, len, e))
AllTempAssigns(P(_)) ==
  CanAlloc =>
    \A h \in LiveSlots, len \in Lens : \A src \in Sources(len), e \in CopyEnvs(len) :
      P(TempAssign(Heap, h, src, len, e))

\* C1: the value of every allocated counter cell is the number of live handles
\* whose counter pointer references it, and get_ref_count() of every valid
\* handle returns that number.
RefCountExact ==
  /\ \A c \in Cells : cells[c].st = "live" => cells[c].val = Cardinality(Sharers(c))
  /\ \A h \in Handles : Valid(h) => Count(h) = Cardinality(Sharers(handles[h].refs))

\* C2: the data buffer (and the counter cell) of every valid live handle is
\* allocated; in every operation taken so far, buffer and counter cell were
\* freed together, on the decrement to zero.
BufferFreedWithCounter ==
  /\ \A h \in Handles : Valid(h) =>
       /\ bufs[handles[h].data].st = "live"
       /\ handles[h].refs # 0
       /\ cells[handles[h].refs].st = "live"
  /\ freed_together

\* the last owner of one buffer is destroyed next to a valid handle of another
C2Witness ==
  \E h \in LiveSlots :
    /\ Valid(h) /\ Count(h) = 1
    /\ Dtor(Heap, h).ev = << <<"dec", handles[h].refs, 0>>, <<"dealloc", handles[h].data>>,
                             <<"free", handles[h].refs>> >>
    /\ \E o \in Handles : o # h /\ Valid(o) /\ Dtor(Heap, h).bufs[handles[o].data].st = "live"

\* C3: no buffer is passed to the deallocator twice, no counter cell is freed
\* twice or touched after it was freed, no operation taken so far released
\* more than one reference, and no counter is ever lower than the number of
\* live handles that reference its cell (no handle is counted down twice).
NoDoubleRelease ==
  /\ released_once
  /\ \A c \in Cells : cells[c].st = "live" => cells[c].val >= Cardinality(Sharers(c))
  /\ \A h \in Handles : handles[h].live /\ handles[h].refs # 0 =>
       cells[handles[h].refs].st = "live"

\* a moved-from handle is destroyed next to the handle that took its buffer
C3Witness ==
  \E h \in LiveSlots :
    /\ FullyInvalid(h) /\ Dtor(Heap, h).ev = <<>>
    /\ \E o \in Handles : Valid(o) /\ Count(o) = 1
    /\ dealloc_count = 0 /\ alloc_count = 1

\* C4: once every handle has been destroyed, the injected deallocator has been
\* called as often as the injected allocator and no counter cell or buffer is
\* still allocated.
NoLeakAfterAllDestroyed ==
  \A h \in LiveSlots :
    LET S == Dtor(Heap, h)
    IN (\A o \in Slots : ~S.handles[o].live) =>
         /\ S.dealloc_count = S.alloc_count
         /\ \A c \in Cells : S.cells[c].st = "free"
         /\ \A b \in Bufs : S.bufs[b].st = "free"

\* C5: every live handle is fully valid (both pointers set, counter >= 1) or
\* fully invalid (both null).
HandleAllOrNothing ==
  \A h \in Handles : handles[h].live =>
    \/ /\ handles[h].refs # 0 /\ handles[h].data # 0
       /\ cells[handles[h].refs].st = "live"
       /\ cells[handles[h].refs].val >= 1
    \/ handles[h].refs = 0 /\ handles[h].data = 0

\* ---- one operation ------------------------------------------------------------------
\* C6: copy-constructing from a valid handle of count n yields a handle with
\* the same counter cell and buffer, both then report n + 1, and neither the
\* injected allocator nor the deallocator (nor malloc / free) is called;
\* copy-constructing from a handle that is not valid yields a handle that is
\* not valid and changes no counter.
CopyCtorShares ==
  \A h \in DeadSlots, o \in LiveSlots :
    LET S == CopyCtor(Heap, h, o)
    IN /\ Valid(o) =>
            /\ S.handles[h] = handles[o]
            /\ S.handles[o] = handles[o]
            /\ get_ref_count(S, h) = Count(o) + 1
            /\ get_ref_count(S, o) = Count(o) + 1
            /\ CountsKept(S) /\ S.bufs = bufs
            /\ S.ev = << <<"inc", handles[o].refs, Count(o) + 1>> >>
       /\ ~Valid(o) =>
            /\ ~is_valid(S, h) /\ ~is_valid(S, o)
            /\ get_ref_count(S, h) = 0
            /\ S.cells = cells /\ S.bufs = bufs /\ CountsKept(S)

\* C7: move-constructing from a valid handle leaves every counter cell as it
\* was: the destination holds the source's former cell and buffer and reports
\* the source's prior count, the source is invalid and reports 0, and no
\* allocator or deallocator is called.
MoveCtorTransfers ==
  \A h \in DeadSlots, o \in LiveSlots :
    LET S == MoveCtor(Heap, h, o)
    IN Valid(o) =>
         /\ S.cells = cells /\ S.bufs = bufs
         /\ S.handles[h] = handles[o]
         /\ get_ref_count(S, h) = Count(o)
         /\ FullyInvalidIn(S, o) /\ get_ref_count(S, o) = 0
         /\ CountsKept(S) /\ S.ev = <<>>

C7Witness ==
  \E h \in DeadSlots, o \in LiveSlots :
    LET S == MoveCtor(Heap, h, o)
    IN /\ Valid(o) /\ Count(o) = 1
       /\ is_valid(S, h) /\ get_ref_count(S, h) = 1
       /\ FullyInvalidIn(S, o)

\* the release that opens an assignment into a valid handle h, ending in S:
\* the first heap event decrements h's old counter once; the old buffer and
\* cell are freed (in that order, right after) iff h was the sole owner;
\* nothing is attached (no increment) before the release is over
ReleasedFirst(h, S) ==
  LET c == handles[h].refs
      b == handles[h].data
      n == cells[c].val
      ev == S.ev
  IN /\ Len(ev) >= 1 /\ ev[1] = <<"dec", c, n - 1>>
     /\ Cardinality(Events(ev, "dec")) = 1
     /\ IF n = 1
        THEN /\ Len(ev) >= 3 /\ ev[2] = <<"dealloc", b>> /\ ev[3] = <<"free", c>>
             /\ S.dealloc_count = dealloc_count + 1
             /\ \A i \in 4..Len(ev) : ev[i][1] = "inc"
        ELSE /\ S.dealloc_count = dealloc_count
             /\ S.bufs[b] = bufs[b] /\ S.cells[c].st = "live"
             /\ \A i \in 2..Len(ev) : ev[i][1] = "inc"
     /\ S.alloc_count = alloc_count

\* C8 as stated: the release comes first, and afterwards copy-assign leaves
\* source and destination with the source's prior count + 1, move-assign
\* leaves the destination with the source's prior count and the source
\* invalid.
AssignReleasesThenAttaches ==
  \A h \in LiveSlots, o \in LiveSlots :
    (h # o /\ Valid(h) /\ Valid(o)) =>
      /\ LET S == CopyAssign(Heap, h, o)
         IN /\ ReleasedFirst(h, S)
            /\ S.handles[h] = handles[o] /\ S.handles[o] = handles[o]
            /\ get_ref_count(S, h) = Count(o) + 1
            /\ get_ref_count(S, o) = Count(o) + 1
      /\ LET S == MoveAssign(Heap, h, o)
         IN /\ ReleasedFirst(h, S)
            /\ S.handles[h] = handles[o]
            /\ get_ref_count(S, h) = Count(o)
            /\ FullyInvalidIn(S, o) /\ get_ref_count(S, o) = 0

\* C8 as amended: the release comes first; when the source does not share the
\* destination's buffer the counts are as stated; when it does, the release
\* has already taken one off the shared counter, so copy-assign leaves the
\* count as it was and move-assign leaves the destination with the prior
\* count - 1 (the source invalid).
AssignReleasesThenAttachesAmended ==
  \A h \in LiveSlots, o \in LiveSlots :
    (h # o /\ Valid(h) /\ Valid(o)) =>
      LET shared == IF handles[o].refs = handles[h].refs THEN 1 ELSE 0
      IN /\ LET S == CopyAssign(Heap, h, o)
            IN /\ ReleasedFirst(h, S)
               /\ S.handles[h] = handles[o] /\ S.handles[o] = handles[o]
               /\ get_ref_count(S, h) = Count(o) + 1 - shared
               /\ get_ref_count(S, o) = Count(o) + 1 - shared
               /\ Tags(S.ev)[Len(S.ev)] = "inc"
         /\ LET S == MoveAssign(Heap, h, o)
            IN /\ ReleasedFirst(h, S)
               /\ S.handles[h] = handles[o]
               /\ get_ref_count(S, h) = Count(o) - shared
               /\ FullyInvalidIn(S, o) /\ get_ref_count(S, o) = 0

\* a sharer is copy-assigned from the handle it shares the buffer with
C8Witness ==
  \E h \in LiveSlots, o \in LiveSlots :
    LET S == CopyAssign(Heap, h, o)
    IN /\ h # o /\ Valid(h) /\ Valid(o)
       /\ handles[h] = handles[o] /\ Count(o) = 2
       /\ Tags(S.ev) = <<"dec", "inc">>
       /\ get_ref_count(S, h) = 2

\* C9: copy-assigning or move-assigning a handle to itself changes nothing:
\* not the handle's pointers, not any counter, not any buffer, not the
\* allocator / deallocator call counts, and makes no heap call.
SelfAssignNoOp ==
  \A h \in LiveSlots : CopyAssign(Heap, h, h) = Heap /\ MoveAssign(Heap, h, h) = Heap

C9Witness ==
  \E h \in LiveSlots :
    /\ Valid(h) /\ Count(h) = 1
    /\ Len(bufs[handles[h].data].data) > 0
    /\ MoveAssign(Heap, h, h).handles[h] = handles[h]

\* when invalid-argument was raised (the source was null), the attempt that
\* ended in S called the injected deallocator as often as the injected allocator, freed
\* the counter cell and the buffer it had allocated, and left every handle,
\* cell and buffer as it was before
AttemptReleased(S) ==
  S.res = "invalid_argument" =>
    LET ev == S.ev
    IN /\ Cardinality(Events(ev, "alloc") \cup Events(ev, "alloc_throw"))
            = Cardinality(Events(ev, "dealloc"))
       /\ \A i \in Events(ev, "malloc") :
            ev[i][2] # 0 => \E j \in Events(ev, "free") : j > i /\ ev[j][2] = ev[i][2]
       /\ \A i \in Events(ev, "alloc") :
            ev[i][3] # 0 => \E j \in Events(ev, "dealloc") : j > i /\ ev[j][2] = ev[i][3]
       /\ S.handles = handles
       /\ S.cells = cells
       /\ S.bufs = bufs

\* C10: when constructing from a null source raises invalid-argument, the
\* attempt's calls to the injected allocator equal its calls to the injected
\* deallocator, the counter cell and the buffer it allocated have both been
\* released, and no handle holds anything of it (the handle under
\* construction is gone, the target of an assignment from it is as it was).
NullSourceAttemptReleased ==
  AllDataCtors(AttemptReleased) /\ AllTempAssigns(AttemptReleased)

\* every construction from a length that can start here ends as P says
AllLenCtors(P(_)) ==
  CanAlloc =>
    \A h \in DeadSlots, len \in Lens : \A e \in Envs(len) : P(LenCtor(Heap, h, len, e))

\* when the construction that ended in S failed with an allocation failure
\* (the injected allocator raised, or malloc of the counter cell returned
\* null), every counter cell and buffer is as it was before the attempt and
\* no handle was made
FailedAttemptReleased(S) ==
  S.res \in {"alloc_exception", "bad_alloc"} =>
    /\ S.cells = cells
    /\ S.bufs = bufs
    /\ S.handles = handles

\* C11: when either constructor fails with an allocation failure, nothing
\* allocated during the attempt remains allocated: the counter cell has been
\* freed when the buffer allocation raised, the buffer has been released when
\* the counter cell's allocation failed.
AllocFailureReleased ==
  AllLenCtors(FailedAttemptReleased) /\ AllDataCtors(FailedAttemptReleased)

\* the handle h that a construction ending in S made, if it is valid, compares
\* equal to no other live handle
FreshIsUnequal(S) ==
  \A h \in DeadSlots : (S.res = "ok" /\ S.handles[h].live /\ is_valid(S, h)) =>
    \A o \in LiveSlots : ~Equal(S, h, o) /\ ~Equal(S, o, h)

\* C12: two valid live handles compare equal iff they hold the same buffer; a
\* valid handle compares equal to the address its own get() returns and to no
\* other buffer's address; a handle just constructed compares equal to no
\* handle that was live before; an invalid (moved-from, default-constructed)
\* handle never compares equal to a valid one.
EqualIffShared ==
  /\ \A a \in LiveSlots, b \in LiveSlots : (Valid(a) /\ Valid(b)) =>
       (Equal(Heap, a, b) <=> get(Heap, a) = get(Heap, b))
  /\ \A a \in LiveSlots : Valid(a) =>
       /\ EqualRaw(Heap, a, get(Heap, a))
       /\ \A p \in Bufs \cup {0} : p # get(Heap, a) => ~EqualRaw(Heap, a, p)
  /\ \A a \in LiveSlots, b \in LiveSlots : (Valid(a) /\ ~Valid(b)) =>
       ~Equal(Heap, a, b) /\ ~Equal(Heap, b, a)
  /\ AllLenCtors(FreshIsUnequal)
  /\ AllDataCtors(FreshIsUnequal)

\* two valid handles of two buffers that hold the same elements
C12Witness ==
  \E a \in LiveSlots, b \in LiveSlots :
    /\ Valid(a) /\ Valid(b) /\ get(Heap, a) # get(Heap, b)
    /\ bufs[get(Heap, a)].data = bufs[get(Heap, b)].data
    /\ Len(bufs[get(Heap, a)].data) > 0
    /\ ~Equal(Heap, a, b)

\* the caller's array lives at an address of its own, outside the heap
Caller == HeapSize + 1
\* memory as the caller and the handles see it: what each address holds, the
\* caller's array arr included
Mem(S, arr) == [a \in Bufs \cup {Caller} |-> IF a = Caller THEN arr ELSE S.bufs[a].data]
\* array[idx] = v by the caller, ptr[idx] = v and ptr[idx] through handle h
CallerWrite(M, idx, v) == [M EXCEPT ![Caller][idx + 1] = v]
WriteThrough(M, S, h, idx, v) == [M EXCEPT ![S.handles[h].data][idx + 1] = v]
ReadThrough(M, S, h, idx) == M[S.handles[h].data][idx + 1]

\* the construction of h from the array arr of len elements ended in S with a
\* valid handle of count 1 on a buffer that was not allocated before and holds
\* arr's elements, and writes on either side do not show on the other
CopiedNotAliased(S, h, arr, len) ==
  /\ S.res = "ok" /\ S.handles[h].live
  /\ is_valid(S, h) /\ get_ref_count(S, h) = 1
  /\ get(S, h) # Caller
  /\ bufs[get(S, h)].st = "free" /\ S.bufs[get(S, h)].st = "live"
  /\ Len(S.bufs[get(S, h)].data) >= len
  /\ \A i \in 0..(len - 1) : ReadThrough(Mem(S, arr), S, h, i) = arr[i + 1]
  /\ \A i \in 0..(len - 1), v \in Vals :
       /\ \A j \in 0..(len - 1) :
            ReadThrough(CallerWrite(Mem(S, arr), i, v), S, h, j) = arr[j + 1]
       /\ WriteThrough(Mem(S, arr), S, h, i, v)[Caller] = arr

\* C13: construction from a non-null source, unless it ends in an allocation
\* failure, yields a valid handle with count 1 whose elements equal the
\* source's, in a fresh buffer that is not the caller's memory: a later write
\* to the caller's array does not change what the handle reads, and a write
\* through the handle does not change the caller's array.
DataCtorCopies ==
  CanAlloc =>
    \A h \in DeadSlots, len \in Lens : \A src \in Sources(len), e \in CopyEnvs(len) :
      ~src.null =>
        LET S == DataCtor(Heap, h, src, len, e)
        IN S.res \in {"alloc_exception", "bad_alloc"} \/ CopiedNotAliased(S, h, src.arr, len)

\* the release of the valid handle h of count n, ending in S with h as the
\* record after: with n >= 2 the counter is n - 1, nothing is freed and the
\* other handles are as they were; with n = 1 the buffer goes to the injected
\* deallocator once and the counter cell is freed once
Released(S, h, after) ==
  LET c == handles[h].refs
      b == handles[h].data
      n == Count(h)
  IN /\ S.handles = [handles EXCEPT ![h] = after]
     /\ S.alloc_count = alloc_count
     /\ IF n >= 2
        THEN /\ S.ev = << <<"dec", c, n - 1>> >>
             /\ S.cells = [cells EXCEPT ![c].val = n - 1]
             /\ S.bufs = bufs
             /\ S.dealloc_count = dealloc_count
             /\ \A o \in LiveSlots \ {h} : handles[o].refs = c =>
                  is_valid(S, o) /\ get_ref_count(S, o) = n - 1
        ELSE /\ S.ev = << <<"dec", c, 0>>, <<"dealloc", b>>, <<"free", c>> >>
             /\ S.cells = [cells EXCEPT ![c] = FreeCell]
             /\ S.bufs = [bufs EXCEPT ![b] = FreeBuf]
             /\ S.dealloc_count = dealloc_count + 1
             /\ S.errs = {}

\* C14: destroying a valid handle, or releasing it by assigning an invalid
\* handle to it, with the buffer shared at count n >= 2 takes the counter to
\* n - 1, calls neither the injected deallocator nor free, leaves the released
\* handle invalid and every other sharer valid with its pointers unchanged;
\* at n = 1 the injected deallocator is called exactly once on the buffer and
\* the counter cell is freed exactly once.
ReleaseSharedOrSole ==
  \A h \in LiveSlots : Valid(h) =>
    /\ Released(Dtor(Heap, h), h, NoHandle)
    /\ \A o \in LiveSlots : FullyInvalid(o) =>
         /\ Released(CopyAssign(Heap, h, o), h, handles[o])
         /\ Released(MoveAssign(Heap, h, o), h, handles[o])

\* one of two sharers is destroyed
C14Witness ==
  \E h \in LiveSlots, o \in LiveSlots :
    /\ h # o /\ Valid(h) /\ Valid(o) /\ Equal(Heap, h, o) /\ Count(h) = 2
    /\ Dtor(Heap, h).ev = << <<"dec", handles[h].refs, 1>> >>
    /\ get_ref_count(Dtor(Heap, h), o) = 1

\* C15: releasing a handle that is not valid (default-constructed, moved-from,
\* already released) is a no-op: dec_ref changes nothing and makes no heap
\* call, the destructor only ends the object, an assignment of an invalid
\* handle leaves it invalid; and releasing any handle twice is the same as
\* releasing it once.
ReleaseInvalidNoOp ==
  \A h \in LiveSlots :
    /\ ~Valid(h) =>
         /\ dec_ref(Heap, h) = Heap
         /\ Dtor(Heap, h) = [Heap EXCEPT !.handles[h] = NoHandle]
         /\ FullyInvalid(h) =>
              \A o \in LiveSlots : FullyInvalid(o) =>
                CopyAssign(Heap, h, o) = Heap /\ MoveAssign(Heap, h, o) = Heap
    /\ ~is_valid(dec_ref(Heap, h), h)
    /\ dec_ref(dec_ref(Heap, h), h) = dec_ref(Heap, h)

\* an invalid handle next to buffers that were and are in use
C15Witness ==
  \E h \in LiveSlots, o \in LiveSlots :
    /\ FullyInvalid(h) /\ Valid(o)
    /\ dealloc_count = 1 /\ alloc_count = 2
    /\ dec_ref(Heap, h).ev = <<>>
    /\ Len(dec_ref(Heap, o).ev) = 3

\* the construction with length len that ended in S, if it returned, called
\* the injected allocator once, for len * sizeof(T) bytes, and malloc once
\* for the counter cell, and no deallocator
AllocatedOnce(S, len) ==
  S.res = "ok" =>
    /\ S.alloc_count = alloc_count + 1 /\ S.dealloc_count = dealloc_count
    /\ Cardinality(Events(S.ev, "alloc")) = 1 /\ Events(S.ev, "alloc_throw") = {}
    /\ \A i \in Events(S.ev, "alloc") : S.ev[i][2] = len * SizeofT
    /\ Cardinality(Events(S.ev, "malloc")) = 1
    /\ Events(S.ev, "dealloc") = {} /\ Events(S.ev, "free") = {}

\* C16: each construction that returns calls the injected allocator exactly
\* once, for exactly length * sizeof(T) bytes, and malloc once for the counter
\* cell; a release passes the buffer pointer to the injected deallocator and
\* the counter pointer to free, never the other way round; and the injected
\* deallocator has never been called more often than buffers were handed out
\* and are gone.
AllocatorOncePerConstruction ==
  /\ CanAlloc =>
       \A h \in DeadSlots, len \in Lens :
         /\ \A e \in Envs(len) : AllocatedOnce(LenCtor(Heap, h, len, e), len)
         /\ \A src \in Sources(len), e \in CopyEnvs(len) :
              AllocatedOnce(DataCtor(Heap, h, src, len, e), len)
  /\ \A h \in LiveSlots : \A i \in 1..Len(Dtor(Heap, h).ev) :
       LET ev == Dtor(Heap, h).ev
       IN /\ ev[i][1] = "dealloc" => ev[i][2] = handles[h].data
          /\ ev[i][1] = "free" => ev[i][2] = handles[h].refs
  /\ dealloc_count + Cardinality({b \in Bufs : bufs[b].st = "live"}) <= alloc_count

\* the buffer that the construction with length len ending in S obtained, if
\* any, was requested with len * sizeof(T) bytes and, while it is held, has
\* room for len elements
RoomForLen(S, len) ==
  \A i \in Events(S.ev, "alloc") :
    /\ S.ev[i][2] = len * SizeofT
    /\ (S.ev[i][3] # 0 /\ S.bufs[S.ev[i][3]].st = "live") =>
         /\ S.bufs[S.ev[i][3]].size = len * SizeofT
         /\ Len(S.bufs[S.ev[i][3]].data) >= len

\* C20: for every length a constructor accepts, the byte size requested from
\* the injected allocator, and the byte count copied from the source, is the
\* product length * sizeof(T) (it does not wrap modulo 2^w), so the buffer has
\* room for length elements and all of them are copied.
SizeNeverWraps ==
  CanAlloc =>
    \A h \in DeadSlots, len \in Lens :
      /\ \A e \in Envs(len) : RoomForLen(LenCtor(Heap, h, len, e), len)
      /\ \A src \in Sources(len), e \in CopyEnvs(len) :
           LET S == DataCtor(Heap, h, src, len, e)
           IN /\ RoomForLen(S, len)
              /\ (S.res = "ok" /\ ~src.null /\ is_valid(S, h)) =>
                   S.bufs[get(S, h)].data = src.arr

\* an assignment into h from o, which shared h's buffer b under counter c,
\* ended in S without any heap release, not even between its release step and
\* its attach step, and left the counter at n, the number of handles on c
SharedKept(S, h, c, b, n) ==
  /\ S.res = "ok" /\ S.errs = {}
  /\ Events(S.ev, "dealloc") = {} /\ Events(S.ev, "free") = {}
  /\ \A i \in Events(S.ev, "dec") : S.ev[i][3] >= 1
  /\ CountsKept(S)
  /\ S.bufs = bufs
  /\ S.cells[c] = [st |-> "live", val |-> n]
  /\ S.handles[h] = [live |-> TRUE, refs |-> c, data |-> b]
  /\ Cardinality({x \in Slots : S.handles[x].live /\ S.handles[x].refs = c}) = n

\* C19: copy-assigning or move-assigning into a valid handle from a distinct
\* handle that already shares its buffer never frees that buffer, not even
\* between the release step and the attach step; afterwards copy assignment
\* leaves the shared count unchanged and move assignment leaves it reduced by
\* exactly one (the source is detached), matching the live sharing handles.
AssignFromSharerKeepsBuffer ==
  \A h \in LiveSlots, o \in LiveSlots :
    (h # o /\ Valid(h) /\ Valid(o) /\ get(Heap, h) = get(Heap, o)) =>
      LET c == handles[h].refs
          b == handles[h].data
      IN /\ handles[o].refs = c
         /\ LET S == CopyAssign(Heap, h, o)
            IN /\ SharedKept(S, h, c, b, cells[c].val)
               /\ S.handles[o] = handles[o]
               /\ Tags(S.ev) = <<"dec", "inc">>
         /\ LET S == MoveAssign(Heap, h, o)
            IN /\ SharedKept(S, h, c, b, cells[c].val - 1)
               /\ FullyInvalidIn(S, o)
               /\ Tags(S.ev) = <<"dec">>

\* two handles on one buffer, so that an assignment between them is one from
\* a handle that already shares the destination's buffer
C19Witness ==
  \E h \in LiveSlots, o \in LiveSlots :
    /\ h # o /\ Valid(h) /\ Valid(o) /\ get(Heap, h) = get(Heap, o)
    /\ cells[handles[h].refs].val = 2
    /\ Allowed(MoveAssign(Heap, h, o)) /\ Allowed(CopyAssign(Heap, h, o))

\* ---- the default allocator ---------------------------------------------------
\* what the caller of a non-void function that flows off its end receives: the
\* behaviour is undefined, the value is any address (a region or null)
Returned == Bufs \cup {0}

\* default_allocator(size): malloc(size), bad_alloc when it answers NULL, and
\* no return statement; b is malloc's answer (0: NULL), init the region's
\* garbage, r the value the caller receives
default_allocator(S, size, b, init, r) ==
  IF b = 0 THEN [S |-> [S EXCEPT !.res = "bad_alloc"], ret |-> 0]
  ELSE [S |-> [S EXCEPT !.bufs[b] = [st |-> "live", size |-> size, data |-> init]],
        ret |-> r]

\* Pointer<T> p{len} with the default pair: the members are initialised as in
\* InitMembers, with default_allocator in the place of alloc
DefaultLenCtor(S, h, len, c, u, b, r) ==
  LET size == (len * SizeofT) % SizeWrap
      S1 == MallocCell(S, c, u)
      A == default_allocator(S1, size, b, [i \in 1..Elems(len) |-> 0], r)
  IN IF A.S.res # "ok" THEN A.S
     ELSE IF c = 0 THEN [A.S EXCEPT !.res = "bad_alloc"]
     ELSE [A.S EXCEPT !.cells[c].val = 1,
                      !.handles[h] = [live |-> TRUE, refs |-> c, data |-> A.ret]]

\* C18: the default allocator returns the address of the region it allocated
\* whenever the allocation succeeds and raises (never returns null) when it
\* fails, so a handle constructed with the default pair holds a data pointer
\* to the region that was allocated for it.
DefaultAllocatorReturnsRegion ==
  \A b \in FreeBufs(Heap) \cup {0}, r \in Returned, len \in 0..MaxLen :
    /\ LET A == default_allocator(Heap, len * SizeofT, b, [i \in 1..len |-> 0], r)
       IN IF b = 0 THEN A.S.res = "bad_alloc"
          ELSE A.S.res = "ok" /\ A.ret = b /\ A.S.bufs[b].st = "live"
    /\ \A h \in DeadSlots, c \in FreeCells(Heap) :
         LET S == DefaultLenCtor(Heap, h, len, c, 0, b, r)
         IN IF b = 0 THEN S.res = "bad_alloc" /\ ~S.handles[h].live
            ELSE S.res = "ok" /\ S.handles[h].data = b /\ is_valid(S, h)

\* ---- handles shared between threads -------------------------------------------
\* NumThreads threads, each with two handle objects of its own; one buffer and
\* one counter cell, shared by the first handle of every thread. The increment
\* of the copy constructor and the decrement of dec_ref are a load and a store
\* of the plain size_t counter, and another thread can run in between.
Threads == 1..NumThreads
RaceSlots == 1..(2 * NumThreads)
Owned(t) == {2 * t - 1, 2 * t}
Idle == [pc |-> "idle", h |-> 0, reg |-> 0]
Quiescent == \A t \in Threads : threads[t].pc = "idle"

RaceInit ==
  /\ handles = [h \in RaceSlots |->
                  IF h % 2 = 1 THEN [live |-> TRUE, refs |-> 1, data |-> 1] ELSE NoHandle]
  /\ cells = [c \in Cells |-> IF c = 1 THEN [st |-> "live", val |-> NumThreads] ELSE FreeCell]
  /\ bufs = [b \in Bufs |->
               IF b = 1 THEN [st |-> "live", size |-> SizeofT, data |-> <<0>>] ELSE FreeBuf]
  /\ alloc_count = 1
  /\ dealloc_count = 0
  /\ freed_together = TRUE
  /\ released_once = TRUE
  /\ threads = [t \in Threads |-> Idle]
  /\ stale = FALSE

\* a thread starts an operation while the shared buffer has not been freed; the
\* operations that are running then are followed to their end
CanStart(t) == threads[t].pc = "idle" /\ bufs[1].st = "live"

\* Pointer h{o}: the members are initialised and *_refs is loaded (a counter
\* that has drifted up to the number of handle objects is not driven further)
RaceCopyLoad(t) ==
  \E o \in Owned(t), h \in Owned(t) :
    /\ CanStart(t) /\ handles[o].live /\ handles[o].refs # 0 /\ ~handles[h].live
    /\ cells[handles[o].refs].val < Cardinality(RaceSlots)
    /\ handles' = [handles EXCEPT ![h] = [handles[o] EXCEPT !.live = FALSE]]
    /\ threads' = [threads EXCEPT ![t] =
                     [pc |-> "copy_store", h |-> h, reg |-> cells[handles[o].refs].val]]
    /\ UNCHANGED <<cells, bufs, alloc_count, dealloc_count, freed_together, released_once, stale>>

\* the loaded value plus one is stored; the constructor returns
RaceCopyStore(t) ==
  LET h == threads[t].h
      c == handles[h].refs
  IN /\ threads[t].pc = "copy_store"
     /\ cells' = [cells EXCEPT ![c].val = (threads[t].reg + 1) % SizeWrap]
     /\ stale' = (stale \/ cells[c].val # threads[t].reg)
     /\ handles' = [handles EXCEPT ![h].live = TRUE]
     /\ threads' = [threads EXCEPT ![t] = Idle]
     /\ UNCHANGED <<bufs, alloc_count, dealloc_count, freed_together, released_once>>

\* Pointer h{std::move(o)}: no access to the counter
RaceMoveCtor(t) ==
  \E o \in Owned(t), h \in Owned(t) :
    /\ CanStart(t) /\ handles[o].live /\ is_valid(Heap, o) /\ ~handles[h].live
    /\ handles' = [handles EXCEPT ![h] = handles[o],
                                  ![o] = [live |-> TRUE, refs |-> 0, data |-> 0]]
    /\ UNCHANGED <<cells, bufs, alloc_count, dealloc_count, freed_together, released_once,
                   threads, stale>>

\* ~Pointer() of h: dec_ref tests is_valid() and loads *_refs
RaceDecLoad(t) ==
  \E h \in Owned(t) :
    /\ CanStart(t) /\ handles[h].live
    /\ IF is_valid(Heap, h)
       THEN /\ threads' = [threads EXCEPT ![t] =
                             [pc |-> "dec_store", h |-> h, reg |-> cells[handles[h].refs].val]]
            /\ UNCHANGED handles
       ELSE /\ handles' = [handles EXCEPT ![h] = NoHandle]
            /\ UNCHANGED threads
    /\ UNCHANGED <<cells, bufs, alloc_count, dealloc_count, freed_together, released_once, stale>>

\* a decrement that releases without the test for zero
RaceDecStoreNoTest(t) ==
  LET c == handles[threads[t].h].refs
      n == (threads[t].reg - 1) % SizeWrap
  IN /\ threads[t].pc = "dec_store"
     /\ cells' = [cells EXCEPT ![c].val = n]
     /\ stale' = (stale \/ cells[c].val # threads[t].reg)
     /\ threads' = [threads EXCEPT ![t].pc = "dec_free", ![t].reg = 0]
     /\ UNCHANGED <<handles, bufs, alloc_count, dealloc_count, freed_together, released_once>>

\* the loaded value minus one is stored and tested for zero
RaceDecStore(t) ==
  LET c == handles[threads[t].h].refs
      n == (threads[t].reg - 1) % SizeWrap
  IN /\ threads[t].pc = "dec_store"
     /\ cells' = [cells EXCEPT ![c].val = n]
     /\ stale' = (stale \/ cells[c].val # threads[t].reg)
     /\ threads' = [threads EXCEPT ![t].pc = IF n = 0 THEN "dec_free" ELSE "dec_clear",
                                   ![t].reg = 0]
     /\ UNCHANGED <<handles, bufs, alloc_count, dealloc_count, freed_together, released_once>>

\* dealloc(_data); free(_refs);
RaceDecFree(t) ==
  LET h == threads[t].h
      S == free(dealloc(Heap, handles[h].data), handles[h].refs)
  IN /\ threads[t].pc = "dec_free"
     /\ cells' = S.cells
     /\ bufs' = S.bufs
     /\ dealloc_count' = S.dealloc_count
     /\ released_once' = (released_once /\ S.errs = {})
     /\ threads' = [threads EXCEPT ![t].pc = "dec_clear"]
     /\ UNCHANGED <<handles, alloc_count, freed_together, stale>>

\* _refs = nullptr; _data = nullptr; the object is gone
RaceDecClear(t) ==
  /\ threads[t].pc = "dec_clear"
  /\ handles' = [handles EXCEPT ![threads[t].h] = NoHandle]
  /\ threads' = [threads EXCEPT ![t] = Idle]
  /\ UNCHANGED <<cells, bufs, alloc_count, dealloc_count, freed_together, released_once, stale>>

RaceNext ==
  \E t \in Threads :
    \/ RaceCopyLoad(t)
    \/ RaceCopyStore(t)
    \/ RaceMoveCtor(t)
    \/ RaceDecLoad(t)
    \/ RaceDecStore(t)
    \/ RaceDecFree(t)
    \/ RaceDecClear(t)

RaceSpec == RaceInit /\ [][RaceNext]_vars

\* the handles that exist and reference the shared buffer
RaceSharers == {h \in RaceSlots : handles[h].live /\ handles[h].data = 1}
\* the counter differs from the number of live handles
CounterOff == cells[1].val # Cardinality(RaceSharers)
\* the buffer was handed to the deallocator a second time
FreedTwice == ~released_once
\* the buffer is freed and a live handle still references it
FreedWhileReferenced == bufs[1].st = "free" /\ RaceSharers # {}

\* C17: copy, move and destruction of handles that share one counter cell, run
\* by several threads without locking, race on the counter: whenever no thread
\* is inside an operation, the counter is off the number of live handles, the
\* buffer has been freed twice, or it is freed under a live handle only if a
\* thread stored a counter value computed from a value another thread had
\* overwritten between its load and its store; and such states are reached.
RaceOnlyByInterleaving ==
  (Quiescent /\ ~stale) =>
    /\ ~CounterOff
    /\ ~FreedTwice
    /\ ~FreedWhileReferenced
    /\ bufs[1].st = (IF RaceSharers = {} THEN "free" ELSE "live")

\* no thread is inside an operation, the counter is off the number of live
\* handles, and the buffer has been freed twice and is referenced by a live
\* handle
C17Witness ==
  Quiescent /\ stale /\ CounterOff /\ FreedTwice /\ FreedWhileReferenced

====
